---- MODULE Spec2Model ----
(***************************************************************************)
(* Closed-enumeration construction protocol of immutable-enums.            *)
(*                                                                         *)
(* Two variants of the same protocol are modelled side by side:            *)
(*   "identity"  src/src/ts-enums.ts        (mutate in place, then freeze) *)
(*   "value"     src/src/immutable-enums.ts (Immutable.js Record, merge    *)
(*                                           and re-bind)                  *)
(* Objects live in heaps: members (EnumValue instances), enums (Enum       *)
(* instances) and arrays (JavaScript arrays, so that aliasing of the       *)
(* registry's array is expressible).                                       *)
(***************************************************************************)
EXTENDS Integers, Sequences, FiniteSets, TLC

VARIABLES variant, sizes, size, initialized, members, enums, enumValues,
          arrays, held, last, run

vars == <<variant, sizes, size, initialized, members, enums, enumValues,
          arrays, held, last, run>>

(***************************************************************************)
(* Bounds of the exploration.                                              *)
(***************************************************************************)
MaxMembers == 6

MaxEnums == 2

MaxLoose == 1

MaxWritten == 1

(***************************************************************************)
(* The host program: Member subtypes, the factory call each one derives    *)
(* from in the value-based variant, and the Enumeration subtypes with      *)
(* their field declarations.                                               *)
(***************************************************************************)
Variants == {"identity", "value"}

MemberTypes == {"Color", "Tint", "Mode"}

Factories == {"F1", "F2"}

FactoryOf(cls) == IF cls = "Mode" THEN "F2" ELSE "F1"

EnumTypes == {"ColorEnumType", "DupEnumType", "EmptyEnumType", "MixedEnumType",
              "BorrowEnumType", "AliasEnumType"}

Names == {"Color", "Other"}

Unset == "<unset>"

NullVal == 0

OtherVal == -1

NewField(prop, cls, desc) == [prop |-> prop, kind |-> "new", cls |-> cls, desc |-> desc]

PlainField(prop) == [prop |-> prop, kind |-> "other", cls |-> Unset, desc |-> Unset]

\* prop = ColorEnum[from]: a field bound to a Member of the Color Enumeration
BorrowedField(prop, from) ==
  [prop |-> prop, kind |-> "borrow", cls |-> Unset, desc |-> Unset, from |-> from]

\* prop = null
NullField(prop) == [prop |-> prop, kind |-> "null", cls |-> Unset, desc |-> Unset]

\* prop = this[from]: a second field bound to the Member an earlier field holds
SameField(prop, from) ==
  [prop |-> prop, kind |-> "same", cls |-> Unset, desc |-> Unset, from |-> from]

Decl(t) ==
  CASE t = "ColorEnumType" ->
         << NewField("RED", "Color", "RED name"),
            PlainField("label"),
            NewField("GREEN", "Color", "GREEN name") >>
    [] t = "DupEnumType" ->
         << NewField("A", "Tint", "same"),
            NewField("B", "Tint", "same") >>
    [] t = "EmptyEnumType" ->
         << PlainField("label") >>
    [] t = "MixedEnumType" ->
         << NewField("X", "Mode", "x"),
            NewField("Y", "Tint", "y") >>
    [] t = "BorrowEnumType" ->
         << BorrowedField("RED", "RED") >>
    [] t = "AliasEnumType" ->
         << BorrowedField("P", "RED") >>
    [] t = "NullEnumType" ->
         << NewField("X", "Mode", "x"),
            NullField("none") >>
    [] t = "TwiceEnumType" ->
         << NewField("A", "Tint", "y"),
            SameField("B", "A") >>
    [] t = "ResultEnumType" ->
         << NewField("ACCEPTED", "Result", "ACCEPTED"),
            NewField("REJECTED", "Result", "REJECTED") >>
    [] t = "StateEnumType" ->
         << NewField("START", "State", "START"),
            NewField("A_SEQUENCE", "State", "A_SEQUENCE"),
            NewField("B_SEQUENCE", "State", "B_SEQUENCE"),
            NewField("ACCEPT", "State", "ACCEPT") >>

PropNames == {"RED", "GREEN", "label", "A", "B", "X", "Y", "P", "name"}

Descriptions == {"RED name", "GREEN name", "same", "x", "y", "foo"}

(***************************************************************************)
(* Error kinds.                                                            *)
(***************************************************************************)
NoError == "none"

PostClosure == "EnumValue classes can't be instantiated individually"

DuplicateName == "Duplicate name"

DuplicateDescription == "All descriptions must be unique for a given enum type"

NullDereference == "TypeError: Cannot read property 'isEnumValue' of null"

TypeError == "TypeError"

(***************************************************************************)
(* Helpers on sequences, computed the way the JavaScript array methods do. *)
(***************************************************************************)
RECURSIVE IndexOfFrom(_, _, _)
IndexOfFrom(values, value, i) ==
  IF i > Len(values) THEN 0
  ELSE IF values[i] = value THEN i
  ELSE IndexOfFrom(values, value, i + 1)

IndexOf(values, value) == IndexOfFrom(values, value, 1)

RECURSIVE UniqueFrom(_, _)
UniqueFrom(values, i) ==
  IF i > Len(values) THEN << >>
  ELSE IF IndexOf(values, values[i]) = i
  THEN << values[i] >> \o UniqueFrom(values, i + 1)
  ELSE UniqueFrom(values, i + 1)

\* no de-duplication at all
UniqueKeepsAll(values) == values

\* Enum.unique: values.filter((value, i) => values.indexOf(value) === i)
Unique(values) == UniqueFrom(values, 1)

\* Array.prototype.find over Member references, 0 standing for undefined
RECURSIVE FindPropNameFrom(_, _, _, _)
FindPropNameFrom(ms, values, propName, i) ==
  IF i > Len(values) THEN 0
  ELSE IF ms[values[i]].propName = propName THEN values[i]
  ELSE FindPropNameFrom(ms, values, propName, i + 1)

RECURSIVE FindDescriptionFrom(_, _, _, _)
FindDescriptionFrom(ms, values, description, i) ==
  IF i > Len(values) THEN 0
  ELSE IF ms[values[i]].description = description THEN values[i]
  ELSE FindDescriptionFrom(ms, values, description, i + 1)

Reverse(sq) == [i \in 1 .. Len(sq) |-> sq[Len(sq) + 1 - i]]

(***************************************************************************)
(* The shared state threaded through one synchronous call.                 *)
(***************************************************************************)
World ==
  [sizes |-> sizes, size |-> size, initialized |-> initialized,
   members |-> members, enumValues |-> enumValues, arrays |-> arrays]

\* the closed check left out of the constructor
IsInitializedNever(init, cls) == FALSE

\* Enum.isInitialized(val): val.constructor.hasOwnProperty(INITIALIZED)
IsInitialized(init, cls) == cls \in init

(***************************************************************************)
(* new Cls(description): the EnumValue constructor.                        *)
(***************************************************************************)
\* identity: EnumValue.sizes.get(this.constructor); value: the factory's `size`
NextOrdinal(w, cls) ==
  IF variant = "identity" THEN w.sizes[cls] ELSE w.size[FactoryOf(cls)]

CountConstruction(w, cls) ==
  IF variant = "identity"
  THEN [w EXCEPT !.sizes[cls] = @ + 1]
  ELSE [w EXCEPT !.size[FactoryOf(cls)] = @ + 1]

\* the extra constructor argument a subclass stores (Weekday.isBusinessDay,
\* State._enter)
ExtraOf(cls, description) == (cls = "Tint" /\ description # "same") \/ cls = "State"

\* the construction counted before the closed check
NewEnumValueCountsFirst(w, cls, description) ==
  IF IsInitialized(w.initialized, cls)
  THEN [err |-> PostClosure, w |-> CountConstruction(w, cls), ref |-> 0]
  ELSE LET rec == [cls |-> cls, description |-> description,
                   ordinal |-> NextOrdinal(w, cls), propName |-> Unset,
                   extra |-> ExtraOf(cls, description),
                   frozen |-> FALSE, origin |-> 0]
           w1 == [w EXCEPT !.members = Append(@, rec)]
       IN [err |-> NoError, w |-> CountConstruction(w1, cls),
           ref |-> Len(w.members) + 1]

NewEnumValue(w, cls, description) ==
  IF IsInitialized(w.initialized, cls)
  THEN [err |-> PostClosure, w |-> w, ref |-> 0]
  ELSE LET rec == [cls |-> cls, description |-> description,
                   ordinal |-> NextOrdinal(w, cls), propName |-> Unset,
                   extra |-> ExtraOf(cls, description),
                   frozen |-> FALSE, origin |-> 0]
           w1 == [w EXCEPT !.members = Append(@, rec)]
       IN [err |-> NoError, w |-> CountConstruction(w1, cls),
           ref |-> Len(w.members) + 1]

(***************************************************************************)
(* The field-initialisation phase of an Enumeration subtype's constructor: *)
(* the declared fields are assigned in order; a throwing Member            *)
(* constructor aborts the construction.                                    *)
(***************************************************************************)
\* the module constant ColorEnum: the first ColorEnumType instance whose
\* constructor returned (0 while the constant is still undefined)
ColorEnum ==
  IF \E i \in 1 .. Len(enums) : enums[i].type = "ColorEnumType" /\ enums[i].frozen
  THEN CHOOSE i \in 1 .. Len(enums) :
         /\ enums[i].type = "ColorEnumType" /\ enums[i].frozen
         /\ \A j \in 1 .. (i - 1) : ~(enums[j].type = "ColorEnumType" /\ enums[j].frozen)
  ELSE 0

\* ColorEnum[from]
FieldOfColorEnum(from) ==
  LET fs == enums[ColorEnum].fields
  IN fs[CHOOSE k \in 1 .. Len(fs) : fs[k].prop = from].val

RECURSIVE RunFieldInits(_, _, _, _)
RunFieldInits(w, decls, i, fields) ==
  IF i > Len(decls) THEN [err |-> NoError, w |-> w, fields |-> fields]
  ELSE LET d == decls[i] IN
       IF d.kind = "new"
       THEN LET r == NewEnumValue(w, d.cls, d.desc) IN
            IF r.err # NoError
            THEN [err |-> r.err, w |-> r.w, fields |-> fields]
            ELSE RunFieldInits(r.w, decls, i + 1,
                               Append(fields, [prop |-> d.prop, val |-> r.ref]))
       ELSE IF d.kind = "same"
       THEN RunFieldInits(w, decls, i + 1,
                          Append(fields, [prop |-> d.prop,
                                          val |-> fields[CHOOSE k \in 1 .. Len(fields) :
                                                           fields[k].prop = d.from].val]))
       ELSE IF d.kind = "null"
       THEN RunFieldInits(w, decls, i + 1, Append(fields, [prop |-> d.prop, val |-> NullVal]))
       ELSE IF d.kind = "borrow"
       THEN IF ColorEnum = 0
            THEN [err |-> TypeError, w |-> w, fields |-> fields]
            ELSE RunFieldInits(w, decls, i + 1,
                               Append(fields, [prop |-> d.prop, val |-> FieldOfColorEnum(d.from)]))
       ELSE RunFieldInits(w, decls, i + 1,
                          Append(fields, [prop |-> d.prop, val |-> OtherVal]))

(***************************************************************************)
(* JavaScript arrays are heap objects: arrays maps an array identity to    *)
(* its contents, and the registry Enum.enumValues maps a name to an array  *)
(* identity (Absent when the Map has no such key).                         *)
(***************************************************************************)
ArrIds == 1 .. (Cardinality(Names) + 1)

Absent == 0

Has(registry, name) == name \in DOMAIN registry /\ registry[name] # Absent

NewArrayId(arrs) == CHOOSE id \in ArrIds \ DOMAIN arrs : \A other \in ArrIds \ DOMAIN arrs : id <= other

StoreArray(arrs, id, contents) ==
  [a \in DOMAIN arrs \cup {id} |-> IF a = id THEN contents ELSE arrs[a]]

(***************************************************************************)
(* Discovery: Object.getOwnPropertyNames(theEnum).filter(isEnumValue).     *)
(* A field value is a Member reference (> 0), null, or some other value.   *)
(* The identity variant tests `instanceof EnumValue`; the value variant    *)
(* reads theEnum[propName]['isEnumValue'], which throws on null.           *)
(***************************************************************************)
Classify(val) ==
  IF val > 0 THEN "candidate"
  ELSE IF val = NullVal /\ variant = "value" THEN "throw"
  ELSE "skip"

RECURSIVE CandidateFieldsFrom(_, _)
CandidateFieldsFrom(fields, i) ==
  IF i > Len(fields) THEN << >>
  ELSE IF Classify(fields[i].val) = "candidate"
  THEN << i >> \o CandidateFieldsFrom(fields, i + 1)
  ELSE CandidateFieldsFrom(fields, i + 1)

\* the candidates taken in reverse declaration order
CandidateFieldsReversed(fields) == Reverse(CandidateFieldsFrom(fields, 1))

CandidateFields(fields) == CandidateFieldsFrom(fields, 1)

(***************************************************************************)
(* Extraction of one candidate field.                                      *)
(*   identity: Object.defineProperty(v, '_propName', {value: propName,     *)
(*             writable: false, configurable: false}); Object.freeze(v)    *)
(*   value:    v' = v.merge({propName}); theEnum[propName] = v'            *)
(***************************************************************************)
\* the value variant without `theEnum[propName] = enumValue`
MapEnumValueNoRebind(w, e, i) ==
  LET prop == e.fields[i].prop
      ref == e.fields[i].val
      m == w.members[ref]
  IN IF variant = "identity"
     THEN [err |-> NoError,
           w |-> [w EXCEPT !.members[ref] = [m EXCEPT !.propName = prop, !.frozen = TRUE]],
           e |-> e, ref |-> ref]
     ELSE [err |-> NoError,
           w |-> [w EXCEPT !.members = Append(@, [m EXCEPT !.propName = prop, !.origin = ref])],
           e |-> e, ref |-> Len(w.members) + 1]

\* an extractor that rebuilds the Member from its description alone: the
\* ordinal becomes the position of the field and the extra field is lost
MapEnumValueRebuilds(w, e, i) ==
  LET prop == e.fields[i].prop
      ref == e.fields[i].val
      m == w.members[ref]
      rebuilt == [m EXCEPT !.propName = prop, !.ordinal = i - 1, !.extra = FALSE]
  IN IF variant = "identity"
     THEN IF ~m.frozen
          THEN [err |-> NoError,
                w |-> [w EXCEPT !.members[ref] = [rebuilt EXCEPT !.frozen = TRUE]],
                e |-> e, ref |-> ref]
          ELSE IF m.propName = prop
          THEN [err |-> NoError, w |-> w, e |-> e, ref |-> ref]
          ELSE [err |-> TypeError, w |-> w, e |-> e, ref |-> 0]
     ELSE LET new == Len(w.members) + 1
          IN [err |-> NoError,
              w |-> [w EXCEPT !.members = Append(@, [rebuilt EXCEPT !.origin = ref])],
              e |-> [e EXCEPT !.fields[i].val = new],
              ref |-> new]

\* the identity variant with _propName left writable and the Member unfrozen
\* when it is stamped again
MapEnumValueRestamps(w, e, i) ==
  LET prop == e.fields[i].prop
      ref == e.fields[i].val
      m == w.members[ref]
  IN IF variant = "identity"
     THEN [err |-> NoError,
           w |-> [w EXCEPT !.members[ref] = [m EXCEPT !.propName = prop, !.frozen = TRUE]],
           e |-> e, ref |-> ref]
     ELSE LET merged == [m EXCEPT !.propName = prop, !.origin = ref]
              new == Len(w.members) + 1
          IN [err |-> NoError,
              w |-> [w EXCEPT !.members = Append(@, merged)],
              e |-> [e EXCEPT !.fields[i].val = new],
              ref |-> new]

\* the identity variant without Object.freeze(enumValue)
MapEnumValueNoFreeze(w, e, i) ==
  LET prop == e.fields[i].prop
      ref == e.fields[i].val
      m == w.members[ref]
  IN IF variant = "identity"
     THEN [err |-> NoError,
           w |-> [w EXCEPT !.members[ref] = [m EXCEPT !.propName = prop]],
           e |-> e, ref |-> ref]
     ELSE LET merged == [m EXCEPT !.propName = prop, !.origin = ref]
              new == Len(w.members) + 1
          IN [err |-> NoError,
              w |-> [w EXCEPT !.members = Append(@, merged)],
              e |-> [e EXCEPT !.fields[i].val = new],
              ref |-> new]

MapEnumValue(w, e, i) ==
  LET prop == e.fields[i].prop
      ref == e.fields[i].val
      m == w.members[ref]
  IN IF variant = "identity"
     THEN IF ~m.frozen
          THEN [err |-> NoError,
                w |-> [w EXCEPT !.members[ref] = [m EXCEPT !.propName = prop, !.frozen = TRUE]],
                e |-> e, ref |-> ref]
          ELSE IF m.propName = prop
          THEN [err |-> NoError,
                w |-> [w EXCEPT !.members[ref] = [m EXCEPT !.frozen = TRUE]],
                e |-> e, ref |-> ref]
          ELSE [err |-> TypeError, w |-> w, e |-> e, ref |-> 0]
     ELSE LET merged == [m EXCEPT !.propName = prop, !.origin = ref]
              new == Len(w.members) + 1
          IN [err |-> NoError,
              w |-> [w EXCEPT !.members = Append(@, merged)],
              e |-> [e EXCEPT !.fields[i].val = new],
              ref |-> new]

RECURSIVE MapCandidates(_, _, _, _, _)
MapCandidates(w, e, cands, k, values) ==
  IF k > Len(cands) THEN [err |-> NoError, w |-> w, e |-> e, values |-> values]
  ELSE LET r == MapEnumValue(w, e, cands[k]) IN
       IF r.err # NoError
       THEN [err |-> r.err, w |-> r.w, e |-> r.e, values |-> values]
       ELSE MapCandidates(r.w, r.e, cands, k + 1, Append(values, r.ref))

\* one closed flag shared by all Member classes instead of one per class
CloseValueClassOverwrites(w, values) ==
  IF Len(values) > 0
  THEN [w EXCEPT !.initialized = {w.members[values[1]].cls}]
  ELSE w

(***************************************************************************)
(* values[0].constructor[INITIALIZED] = true                               *)
(***************************************************************************)
CloseValueClass(w, values) ==
  IF Len(values) > 0
  THEN [w EXCEPT !.initialized = @ \cup {w.members[values[1]].cls}]
  ELSE w

\* the uniqueness check made on the property names instead of the descriptions
DescriptionsOfPropNames(w, values) ==
  [i \in 1 .. Len(values) |-> w.members[values[i]].propName]

DescriptionsOf(w, values) ==
  [i \in 1 .. Len(values) |-> w.members[values[i]].description]

\* the descriptions checked before the Member class is closed
EnumValuesFromObjectCheckFirst(w, e) ==
  IF \E i \in 1 .. Len(e.fields) : Classify(e.fields[i].val) = "throw"
  THEN [err |-> NullDereference, w |-> w, e |-> e, values |-> << >>]
  ELSE LET r == MapCandidates(w, e, CandidateFields(e.fields), 1, << >>) IN
       IF r.err # NoError THEN r
       ELSE IF Len(r.values) # Len(Unique(DescriptionsOf(r.w, r.values)))
       THEN [err |-> DuplicateDescription, w |-> r.w, e |-> r.e, values |-> r.values]
       ELSE [err |-> NoError, w |-> CloseValueClass(r.w, r.values), e |-> r.e,
             values |-> r.values]

(***************************************************************************)
(* Enum.enumValuesFromObject                                               *)
(***************************************************************************)
EnumValuesFromObject(w, e) ==
  IF \E i \in 1 .. Len(e.fields) : Classify(e.fields[i].val) = "throw"
  THEN [err |-> NullDereference, w |-> w, e |-> e, values |-> << >>]
  ELSE LET r == MapCandidates(w, e, CandidateFields(e.fields), 1, << >>) IN
       IF r.err # NoError THEN r
       ELSE LET w2 == CloseValueClass(r.w, r.values)
                descriptions == DescriptionsOf(w2, r.values)
            IN IF Len(r.values) # Len(Unique(descriptions))
               THEN [err |-> DuplicateDescription, w |-> w2, e |-> r.e, values |-> r.values]
               ELSE [err |-> NoError, w |-> w2, e |-> r.e, values |-> r.values]

\* initEnum without Object.freeze(theEnum)
FreezeEnumSkipped(e) == e

(***************************************************************************)
(* Object.freeze(theEnum)                                                  *)
(***************************************************************************)
FreezeEnum(e) == [e EXCEPT !.frozen = TRUE]

\* the registry written only for a non-empty value list
PublishNonEmpty(w, e, values) ==
  IF Len(values) = 0 THEN w
  ELSE LET id == NewArrayId(w.arrays)
       IN [w EXCEPT !.arrays = StoreArray(@, id, values),
                    !.enumValues[e.name] = id]

(***************************************************************************)
(* Enum.enumValues.set(theEnum.name, enumValues)                           *)
(***************************************************************************)
Publish(w, e, values) ==
  LET id == NewArrayId(w.arrays)
  IN [w EXCEPT !.arrays = StoreArray(@, id, values),
               !.enumValues[e.name] = id]

\* the duplicate-name check made after extraction instead of before it
StaticInitEnumLateCheck(w, e) ==
  LET r == EnumValuesFromObject(w, e) IN
  IF Has(w.enumValues, e.name)
  THEN [err |-> DuplicateName, errName |-> e.name, w |-> r.w, e |-> r.e]
  ELSE IF r.err # NoError
  THEN [err |-> r.err,
        errName |-> IF r.err = DuplicateDescription THEN e.name ELSE Unset,
        w |-> r.w, e |-> r.e]
  ELSE [err |-> NoError, errName |-> Unset,
        w |-> Publish(r.w, r.e, r.values),
        e |-> FreezeEnum(r.e)]

\* initEnum without the duplicate-name check
StaticInitEnumNoNameCheck(w, e) ==
  LET r == EnumValuesFromObject(w, e) IN
  IF r.err # NoError
  THEN [err |-> r.err,
        errName |-> IF r.err = DuplicateDescription THEN e.name ELSE Unset,
        w |-> r.w, e |-> r.e]
  ELSE [err |-> NoError, errName |-> Unset,
        w |-> Publish(r.w, r.e, r.values),
        e |-> FreezeEnum(r.e)]

\* the registry written before the outcome of extraction is known
StaticInitEnumPublishFirst(w, e) ==
  IF Has(w.enumValues, e.name)
  THEN [err |-> DuplicateName, errName |-> e.name, w |-> w, e |-> e]
  ELSE LET r == EnumValuesFromObject(w, e) IN
       IF r.err # NoError
       THEN [err |-> r.err,
             errName |-> IF r.err = DuplicateDescription THEN e.name ELSE Unset,
             w |-> Publish(r.w, r.e, r.values), e |-> r.e]
       ELSE [err |-> NoError, errName |-> Unset,
             w |-> Publish(r.w, r.e, r.values),
             e |-> FreezeEnum(r.e)]

(***************************************************************************)
(* static Enum.initEnum(name, theEnum)                                     *)
(***************************************************************************)
StaticInitEnum(w, e) ==
  IF Has(w.enumValues, e.name)
  THEN [err |-> DuplicateName, errName |-> e.name, w |-> w, e |-> e]
  ELSE LET r == EnumValuesFromObject(w, e) IN
       IF r.err # NoError
       THEN [err |-> r.err,
             errName |-> IF r.err = DuplicateDescription THEN e.name ELSE Unset,
             w |-> r.w, e |-> r.e]
       ELSE [err |-> NoError, errName |-> Unset,
             w |-> Publish(r.w, r.e, r.values),
             e |-> FreezeEnum(r.e)]

\* the name kept outside the frozen instance, so that storing it never throws
InitEnumUnguarded(w, e, name) == StaticInitEnum(w, [e EXCEPT !.name = name])

\* the name stored on the instance only after Enum.initEnum returned
InitEnumNameAfter(w, e, name) ==
  IF e.frozen
  THEN [err |-> TypeError, errName |-> Unset, w |-> w, e |-> e]
  ELSE LET r == StaticInitEnum(w, [e EXCEPT !.name = name]) IN
       IF r.err = NoError THEN r ELSE [r EXCEPT !.e.name = e.name]

(***************************************************************************)
(* Enum.prototype.initEnum(name): this.name = name; Enum.initEnum(...)     *)
(* The assignment throws on a frozen instance (module code is strict).     *)
(***************************************************************************)
InitEnum(w, e, name) ==
  IF e.frozen
  THEN [err |-> TypeError, errName |-> Unset, w |-> w, e |-> e]
  ELSE StaticInitEnum(w, [e EXCEPT !.name = name])

(***************************************************************************)
(* Queries.                                                                *)
(***************************************************************************)
CopyOf(values) == [i \in 1 .. Len(values) |-> values[i]]

\* static Enum.values(name): values ? [...values] : []
StaticValues(w, name) ==
  IF Has(w.enumValues, name) THEN CopyOf(w.arrays[w.enumValues[name]]) ELSE << >>

\* get values(): Enum.values(this.name)
ValuesOf(w, e) == StaticValues(w, e.name)

\* this.values.find(x => x.propName === propName)
ByPropNameOf(w, e, propName) ==
  FindPropNameFrom(w.members, ValuesOf(w, e), propName, 1)

\* the search made on propName instead of description
ByDescriptionOfPropName(w, e, description) ==
  FindPropNameFrom(w.members, ValuesOf(w, e), description, 1)

\* this.values.find(x => x.description === description)
ByDescriptionOf(w, e, description) ==
  FindDescriptionFrom(w.members, ValuesOf(w, e), description, 1)

(***************************************************************************)
(* The identity of the array handed to the caller of `values`: a fresh     *)
(* array holding a copy of the registered one.                             *)
(***************************************************************************)
\* the registered array itself handed out
ReturnedArrayAlias(w, e, fresh) ==
  IF Has(w.enumValues, e.name) THEN w.enumValues[e.name] ELSE fresh

ReturnedArray(w, e, fresh) == fresh

(***************************************************************************)
(* State machine.                                                          *)
(***************************************************************************)
NoCall ==
  [op |-> "none", err |-> NoError, errName |-> Unset, type |-> Unset,
   name |-> Unset, enum |-> 0, cls |-> Unset, arg |-> Unset, res |-> 0,
   reached |-> FALSE]

NoneHeld == [id |-> 0, mutated |-> FALSE]

\* no call of runStateMachine was made
NoRun == [str |-> << >>, pos |-> 0, state |-> 0, status |-> "idle", result |-> FALSE]

Init ==
  /\ variant \in Variants
  /\ sizes = [c \in MemberTypes |-> 0]
  /\ size = [f \in Factories |-> 0]
  /\ initialized = {}
  /\ members = << >>
  /\ enums = << >>
  /\ enumValues = [n \in Names |-> Absent]
  /\ arrays = << >>
  /\ held = NoneHeld
  /\ last = NoCall
  /\ run = NoRun

SetWorld(w) ==
  /\ sizes' = w.sizes
  /\ size' = w.size
  /\ initialized' = w.initialized
  /\ members' = w.members
  /\ enumValues' = w.enumValues
  /\ arrays' = w.arrays

\* Member instances one call may allocate
Allocations(n) == IF variant = "identity" THEN n ELSE 2 * n

NewFieldCount(t) == Cardinality({i \in 1 .. Len(Decl(t)) : Decl(t)[i].kind = "new"})

\* records allocated by new T(): two per constructed Member in the value variant
\* (the Member and its merged copy), one per borrowed Member (its merged copy)
BorrowFieldCount(t) ==
  Cardinality({i \in 1 .. Len(Decl(t)) : Decl(t)[i].kind \in {"borrow", "same"}})

AllocationsOf(t) ==
  Allocations(NewFieldCount(t)) + (IF variant = "identity" THEN 0 ELSE BorrowFieldCount(t))

\* how many Members were constructed outside any Enumeration so far
Loose(description) ==
  Cardinality({m \in 1 .. Len(members) :
                 members[m].description = description /\ members[m].origin = 0})

\* new Cls(description) outside any Enumeration
NewMember(cls, description) ==
  /\ Len(members) + 1 <= MaxMembers
  /\ Loose(description) < MaxLoose
  /\ LET r == NewEnumValue(World, cls, description) IN
     /\ SetWorld(r.w)
     /\ last' = [NoCall EXCEPT !.op = "newMember", !.cls = cls,
                               !.arg = description, !.err = r.err, !.res = r.ref]
  /\ UNCHANGED <<variant, run, enums, held>>

\* new T(): field initialisers, then this.initEnum(name)
Construct(t, name) ==
  /\ Len(enums) + 1 <= MaxEnums
  /\ Len(members) + AllocationsOf(t) <= MaxMembers
  /\ LET r1 == RunFieldInits(World, Decl(t), 1, << >>) IN
     IF r1.err # NoError
     THEN /\ SetWorld(r1.w)
          /\ enums' = enums
          /\ last' = [NoCall EXCEPT !.op = "construct", !.type = t, !.name = name,
                                    !.err = r1.err]
     ELSE LET e0 == [type |-> t, name |-> Unset, fields |-> r1.fields, frozen |-> FALSE]
              r2 == InitEnum(r1.w, e0, name)
          IN /\ SetWorld(r2.w)
             /\ enums' = Append(enums, r2.e)
             /\ last' = [NoCall EXCEPT !.op = "construct", !.type = t, !.name = name,
                                       !.err = r2.err, !.errName = r2.errName,
                                       !.enum = Len(enums) + 1, !.reached = TRUE]
  /\ UNCHANGED <<variant, run, held>>

\* a further this.initEnum(name) on an existing instance
ReInit(i, name) ==
  /\ i \in 1 .. Len(enums)
  /\ Len(members) + Allocations(Len(CandidateFields(enums[i].fields))) <= MaxMembers
  /\ LET r == InitEnum(World, enums[i], name) IN
     /\ SetWorld(r.w)
     /\ enums' = [enums EXCEPT ![i] = r.e]
     /\ last' = [NoCall EXCEPT !.op = "initEnum", !.type = enums[i].type, !.name = name,
                               !.err = r.err, !.errName = r.errName,
                               !.enum = i, !.reached = TRUE]
  /\ UNCHANGED <<variant, run, held>>

\* arrays still referenced by the registry or by the caller
Live(arrs, registry, keep) ==
  [a \in {b \in DOMAIN arrs : b = keep \/ \E n \in Names : registry[n] = b} |-> arrs[a]]

\* const copy = e.values
Values(i) ==
  /\ i \in 1 .. Len(enums)
  /\ LET kept == Live(arrays, enumValues, 0)
         fresh == NewArrayId(kept)
         got == ReturnedArray(World, enums[i], fresh)
     IN /\ arrays' = IF got = fresh
                     THEN StoreArray(kept, fresh, ValuesOf(World, enums[i]))
                     ELSE kept
        /\ held' = [id |-> got, mutated |-> FALSE]
  /\ last' = [NoCall EXCEPT !.op = "values", !.enum = i]
  /\ UNCHANGED <<variant, run, sizes, size, initialized, members, enums, enumValues>>

Mutated(sq, how) ==
  CASE how = "push" -> Append(sq, 1)
    [] how = "pop" -> SubSeq(sq, 1, Len(sq) - 1)
    [] how = "reverse" -> Reverse(sq)
    [] how = "overwrite" -> [sq EXCEPT ![1] = sq[Len(sq)]]

Mutations == {"push", "pop", "reverse", "overwrite"}

\* the caller mutates, once, the array it got from `values`
Mutate(how) ==
  /\ held.id # 0
  /\ ~held.mutated
  /\ how = "push" => Len(members) > 0
  /\ how = "pop" => Len(arrays[held.id]) > 0
  /\ how \in {"reverse", "overwrite"} => Len(arrays[held.id]) > 1
  /\ arrays' = [arrays EXCEPT ![held.id] = Mutated(@, how)]
  /\ held' = [held EXCEPT !.mutated = TRUE]
  /\ last' = [NoCall EXCEPT !.op = "mutate", !.arg = how]
  /\ UNCHANGED <<variant, run, sizes, size, initialized, members, enums, enumValues>>

\* a lookup that rejects an unknown key instead of answering undefined
ByPropNameStrict(i, propName) ==
  /\ i \in 1 .. Len(enums)
  /\ LET res == ByPropNameOf(World, enums[i], propName) IN
       last' = [NoCall EXCEPT !.op = "byPropName", !.enum = i, !.arg = propName,
                              !.res = res,
                              !.err = IF res = 0 THEN TypeError ELSE NoError]
  /\ UNCHANGED <<variant, run, sizes, size, initialized, members, enums, enumValues, arrays, held>>

ByPropName(i, propName) ==
  /\ i \in 1 .. Len(enums)
  /\ last' = [NoCall EXCEPT !.op = "byPropName", !.enum = i, !.arg = propName,
                            !.res = ByPropNameOf(World, enums[i], propName)]
  /\ UNCHANGED <<variant, run, sizes, size, initialized, members, enums, enumValues, arrays, held>>

ByDescription(i, description) ==
  /\ i \in 1 .. Len(enums)
  /\ last' = [NoCall EXCEPT !.op = "byDescription", !.enum = i, !.arg = description,
                            !.res = ByDescriptionOf(World, enums[i], description)]
  /\ UNCHANGED <<variant, run, sizes, size, initialized, members, enums, enumValues, arrays, held>>

(***************************************************************************)
(* toString of a Member and of an Enumeration.  A template literal prints  *)
(* an unset propName or name as "undefined".                               *)
(***************************************************************************)
Printed(str) == IF str = Unset THEN "undefined" ELSE str

\* `${this.constructor.name}.${this.description}`
EnumValueToStringDescription(m) == m.cls \o "." \o Printed(m.description)

\* EnumValue.toString: `${this.constructor.name}.${this.propName}`
EnumValueToString(m) == m.cls \o "." \o Printed(m.propName)

\* return this.constructor.name
EnumToStringTypeName(e) == e.type

\* Enum.toString: return this.name
EnumToString(e) == e.name

MemberToString(m) ==
  /\ m \in 1 .. Len(members)
  /\ last' = [NoCall EXCEPT !.op = "memberToString", !.res = m,
                            !.arg = EnumValueToString(members[m])]
  /\ UNCHANGED <<variant, run, sizes, size, initialized, members, enums, enumValues, arrays, held>>

TypeToString(i) ==
  /\ i \in 1 .. Len(enums)
  /\ last' = [NoCall EXCEPT !.op = "toString", !.enum = i, !.arg = EnumToString(enums[i])]
  /\ UNCHANGED <<variant, run, sizes, size, initialized, members, enums, enumValues, arrays, held>>

(***************************************************************************)
(* Writes by client code.  Module code is strict, so an assignment to a    *)
(* property of a frozen object throws a TypeError.  In the value variant a *)
(* Member is an Immutable.js Record, whose property setters always throw.  *)
(***************************************************************************)
CannotSet == "Cannot set on an immutable record."

WriteProps == {"RED", "label", "extra"}

WriteVals == {NullVal}

MemberProps == {"description", "ordinal", "propName"}

SetField(fields, prop, val) ==
  IF \E k \in 1 .. Len(fields) : fields[k].prop = prop
  THEN [k \in 1 .. Len(fields) |->
          IF fields[k].prop = prop THEN [prop |-> prop, val |-> val] ELSE fields[k]]
  ELSE Append(fields, [prop |-> prop, val |-> val])

\* theEnum[prop] = val
WriteEnum(e, prop, val) ==
  IF e.frozen
  THEN [err |-> TypeError, e |-> e]
  ELSE [err |-> NoError, e |-> [e EXCEPT !.fields = SetField(@, prop, val)]]

\* member[prop] = <some other value> (identity: the backing field _prop)
WriteMember(m, prop) ==
  IF variant = "value"
  THEN [err |-> CannotSet, m |-> m]
  ELSE IF m.frozen
  THEN [err |-> TypeError, m |-> m]
  ELSE [err |-> NoError,
        m |-> CASE prop = "description" -> [m EXCEPT !.description = "foo"]
                [] prop = "ordinal" -> [m EXCEPT !.ordinal = -1]
                [] prop = "propName" -> [m EXCEPT !.propName = "extra"]]

\* objects that client code has written to so far
WrittenEnum(e) ==
  \E k \in 1 .. Len(e.fields) : e.fields[k].prop = "extra" \/ e.fields[k].val \in WriteVals

WrittenMember(m) == m.description = "foo" \/ m.ordinal < 0 \/ m.propName = "extra"

Written ==
  Cardinality({i \in 1 .. Len(enums) : WrittenEnum(enums[i])})
    + Cardinality({m \in 1 .. Len(members) : WrittenMember(members[m])})

WriteEnumField(i, prop, val) ==
  /\ i \in 1 .. Len(enums)
  /\ WriteEnum(enums[i], prop, val).err = NoError =>
       WrittenEnum(enums[i]) \/ Written < MaxWritten
  /\ LET r == WriteEnum(enums[i], prop, val) IN
     /\ enums' = [enums EXCEPT ![i] = r.e]
     /\ last' = [NoCall EXCEPT !.op = "writeEnum", !.enum = i, !.arg = prop, !.err = r.err]
  /\ UNCHANGED <<variant, run, sizes, size, initialized, members, enumValues, arrays, held>>

WriteMemberField(m, prop) ==
  /\ m \in 1 .. Len(members)
  /\ WriteMember(members[m], prop).err = NoError =>
       WrittenMember(members[m]) \/ Written < MaxWritten
  /\ LET r == WriteMember(members[m], prop) IN
     /\ members' = [members EXCEPT ![m] = r.m]
     /\ last' = [NoCall EXCEPT !.op = "writeMember", !.res = m, !.arg = prop, !.err = r.err]
  /\ UNCHANGED <<variant, run, sizes, size, initialized, enums, enumValues, arrays, held>>

(***************************************************************************)
(* Spec: the construction protocol (Member construction, Enumeration       *)
(* construction with closure, repeated closure).                           *)
(***************************************************************************)
Next ==
  \/ \E cls \in MemberTypes : NewMember(cls, "foo")
  \/ \E t \in EnumTypes, name \in Names : Construct(t, name)
  \/ \E i \in 1 .. MaxEnums, name \in Names : ReInit(i, name)

Spec == Init /\ [][Next]_vars

(***************************************************************************)
(* SpecLookup: Enumerations are constructed and closed, then looked up.    *)
(***************************************************************************)
NextLookup ==
  \/ \E t \in EnumTypes, name \in Names : Construct(t, name)
  \/ \E i \in 1 .. MaxEnums, name \in Names : ReInit(i, name)
  \/ \E i \in 1 .. MaxEnums, propName \in PropNames : ByPropName(i, propName)
  \/ \E i \in 1 .. MaxEnums, description \in Descriptions : ByDescription(i, description)

SpecLookup == Init /\ [][NextLookup]_vars

(***************************************************************************)
(* SpecCopy: Enumerations are constructed and closed; the caller obtains   *)
(* `values` and mutates the array it was given.                            *)
(***************************************************************************)
NextCopy ==
  \/ \E t \in EnumTypes, name \in Names : Construct(t, name)
  \/ \E i \in 1 .. MaxEnums, name \in Names : ReInit(i, name)
  \/ \E i \in 1 .. MaxEnums : Values(i)
  \/ \E how \in Mutations : Mutate(how)

SpecCopy == Init /\ [][NextCopy]_vars

(***************************************************************************)
(* SpecWrite: Enumerations are constructed and closed; client code then    *)
(* assigns to properties of the instances and of the Members.              *)
(***************************************************************************)
WrittenTypes == {"ColorEnumType", "DupEnumType"}

NextWrite ==
  \/ \E t \in WrittenTypes, name \in Names : Construct(t, name)
  \/ \E i \in 1 .. MaxEnums, name \in Names : ReInit(i, name)
  \/ \E i \in 1 .. MaxEnums, prop \in WriteProps, val \in WriteVals : WriteEnumField(i, prop, val)
  \/ \E m \in 1 .. MaxMembers, prop \in MemberProps : WriteMemberField(m, prop)

SpecWrite == Init /\ [][NextWrite]_vars

(***************************************************************************)
(* SpecText: Enumerations are constructed and closed, then printed.        *)
(***************************************************************************)
NextText ==
  \/ \E t \in EnumTypes, name \in Names : Construct(t, name)
  \/ \E i \in 1 .. MaxEnums, name \in Names : ReInit(i, name)
  \/ \E m \in 1 .. MaxMembers : MemberToString(m)
  \/ \E i \in 1 .. MaxEnums : TypeToString(i)

SpecText == Init /\ [][NextText]_vars

(***************************************************************************)
(* SpecFields: Enumerations whose fields hold null, or the same Member     *)
(* twice, or a Member of another Enumeration, are constructed and closed.  *)
(***************************************************************************)
FieldTypes == {"ColorEnumType", "AliasEnumType", "NullEnumType", "TwiceEnumType"}

NextFields ==
  \/ \E t \in FieldTypes, name \in Names : Construct(t, name)
  \/ \E i \in 1 .. MaxEnums, name \in Names : ReInit(i, name)

SpecFields == Init /\ [][NextFields]_vars

(***************************************************************************)
(* SpecQuery: Enumerations are constructed and closed, then queried with   *)
(* every query operation, for known and unknown keys.                      *)
(***************************************************************************)
\* keys of a lookup: one that names a Member and one that names none
QueryPropNames == {"RED", "label"}

QueryDescriptions == {"RED name", "RED"}

NextQuery ==
  \/ \E t \in EnumTypes, name \in Names : Construct(t, name)
  \/ \E i \in 1 .. MaxEnums, name \in Names : ReInit(i, name)
  \/ \E i \in 1 .. MaxEnums : Values(i)
  \/ \E i \in 1 .. MaxEnums, propName \in QueryPropNames : ByPropName(i, propName)
  \/ \E i \in 1 .. MaxEnums, description \in QueryDescriptions : ByDescription(i, description)
  \/ \E m \in 1 .. MaxMembers : MemberToString(m)
  \/ \E i \in 1 .. MaxEnums : TypeToString(i)

SpecQuery == Init /\ [][NextQuery]_vars

(***************************************************************************)
(* The state machine built on two Enumerations: Result {ACCEPTED,          *)
(* REJECTED} and State {START, A_SEQUENCE, B_SEQUENCE, ACCEPT}.  Every     *)
(* State Member holds a transition closure, `_enter`, that reads at most   *)
(* one character from the iterator over the input string.                  *)
(***************************************************************************)
\* longest input string given to runStateMachine
MaxInput == 5

Chars == {"A", "B", "C"}

Inputs == UNION {[1 .. n -> Chars] : n \in 0 .. MaxInput}

\* the names the two Enumerations register
MachineNames == {"Result", "State"}

\* const ResultEnum = new ResultEnumType(); const StateEnum = new StateEnumType()
ResultEnum == 1

StateEnum == 2

\* theEnum[prop], undefined (0) when the instance has no such field
FieldOf(i, prop) ==
  LET fs == enums[i].fields
  IN IF \E k \in 1 .. Len(fs) : fs[k].prop = prop
     THEN fs[CHOOSE k \in 1 .. Len(fs) : fs[k].prop = prop].val
     ELSE 0

\* the test module before any of its classes was instantiated
InitMachine ==
  /\ variant = "identity"
  /\ sizes = [c \in {"Result", "State"} |-> 0]
  /\ size = [f \in Factories |-> 0]
  /\ initialized = {}
  /\ members = << >>
  /\ enums = << >>
  /\ enumValues = [n \in MachineNames |-> Absent]
  /\ arrays = << >>
  /\ held = NoneHeld
  /\ last = NoCall
  /\ run = NoRun

\* the module-level statements, in order: const ResultEnum = new
\* ResultEnumType(), then const StateEnum = new StateEnumType()
Load ==
  IF Len(enums) = 0
  THEN Construct("ResultEnumType", "Result")
  ELSE /\ Len(enums) = 1
       /\ Construct("StateEnumType", "State")

\* iter.next() of a string iterator standing before character pos + 1
IterNext(str, pos) ==
  IF pos < Len(str)
  THEN [value |-> str[pos + 1], done |-> FALSE, pos |-> pos + 1]
  ELSE [value |-> Unset, done |-> TRUE, pos |-> pos]

\* A_SEQUENCE answering ACCEPT at the end of the input
EnterAcceptsEarly(m, str, pos) ==
  LET it == IterNext(str, pos)
      to(i, prop) == [state |-> FieldOf(i, prop), pos |-> it.pos]
      name == members[m].description
  IN CASE name = "START" ->
            IF it.done THEN to(ResultEnum, "REJECTED")
            ELSE IF it.value = "A" THEN to(StateEnum, "A_SEQUENCE")
            ELSE to(ResultEnum, "REJECTED")
       [] name = "A_SEQUENCE" ->
            IF it.done THEN to(StateEnum, "ACCEPT")
            ELSE IF it.value = "A" THEN to(StateEnum, "A_SEQUENCE")
            ELSE IF it.value = "B" THEN to(StateEnum, "B_SEQUENCE")
            ELSE to(ResultEnum, "REJECTED")
       [] name = "B_SEQUENCE" ->
            IF it.done THEN to(StateEnum, "ACCEPT")
            ELSE IF it.value = "B" THEN to(StateEnum, "B_SEQUENCE")
            ELSE to(ResultEnum, "REJECTED")
       [] name = "ACCEPT" ->
            [state |-> FieldOf(ResultEnum, "ACCEPTED"), pos |-> pos]

\* state.enter(iter): the closure the State Member was constructed with
Enter(m, str, pos) ==
  LET it == IterNext(str, pos)
      to(i, prop) == [state |-> FieldOf(i, prop), pos |-> it.pos]
      name == members[m].description
  IN CASE name = "START" ->
            IF it.done THEN to(ResultEnum, "REJECTED")
            ELSE IF it.value = "A" THEN to(StateEnum, "A_SEQUENCE")
            ELSE to(ResultEnum, "REJECTED")
       [] name = "A_SEQUENCE" ->
            IF it.done THEN to(ResultEnum, "REJECTED")
            ELSE IF it.value = "A" THEN to(StateEnum, "A_SEQUENCE")
            ELSE IF it.value = "B" THEN to(StateEnum, "B_SEQUENCE")
            ELSE to(ResultEnum, "REJECTED")
       [] name = "B_SEQUENCE" ->
            IF it.done THEN to(StateEnum, "ACCEPT")
            ELSE IF it.value = "B" THEN to(StateEnum, "B_SEQUENCE")
            ELSE to(ResultEnum, "REJECTED")
       [] name = "ACCEPT" ->
            [state |-> FieldOf(ResultEnum, "ACCEPTED"), pos |-> pos]

\* runStateMachine(str), up to the loop: iter = str[Symbol.iterator](),
\* state = StateEnum.START
RunStateMachine(str) ==
  /\ Len(enums) = 2
  /\ run.status # "running"
  /\ run' = [str |-> str, pos |-> 0, state |-> FieldOf(StateEnum, "START"),
             status |-> "running", result |-> FALSE]
  /\ UNCHANGED <<variant, sizes, size, initialized, members, enums, enumValues,
                 arrays, held, last>>

\* one turn of the loop of runStateMachine
Loop ==
  /\ run.status = "running"
  /\ run' = IF run.state = FieldOf(ResultEnum, "ACCEPTED")
            THEN [run EXCEPT !.status = "returned", !.result = TRUE]
            ELSE IF run.state = FieldOf(ResultEnum, "REJECTED")
            THEN [run EXCEPT !.status = "returned", !.result = FALSE]
            ELSE LET r == Enter(run.state, run.str, run.pos)
                 IN [run EXCEPT !.state = r.state, !.pos = r.pos]
  /\ UNCHANGED <<variant, sizes, size, initialized, members, enums, enumValues,
                 arrays, held, last>>

(***************************************************************************)
(* SpecMachine: the test module is loaded, then runStateMachine is called  *)
(* on one input string after another.  A call runs its loop to the end:    *)
(* nothing else is scheduled while it runs.                                *)
(***************************************************************************)
NextMachine ==
  \/ Load
  \/ \E str \in Inputs : RunStateMachine(str)
  \/ Loop

SpecMachine == InitMachine /\ [][NextMachine]_vars /\ WF_vars(Loop)

(***************************************************************************)
(* Vocabulary of the properties.                                           *)
(***************************************************************************)
Closed(e) == e.frozen

Registered(e) == IF Has(enumValues, e.name) THEN arrays[enumValues[e.name]] ELSE << >>

\* c is the one concrete subtype of the members of some closed Enumeration
ClosedMemberType(c) ==
  \E i \in 1 .. Len(enums) :
    /\ Closed(enums[i])
    /\ Len(Registered(enums[i])) > 0
    /\ \A k \in 1 .. Len(Registered(enums[i])) : members[Registered(enums[i])[k]].cls = c

DeclaresNew(t, c) == \E k \in 1 .. Len(Decl(t)) : Decl(t)[k].kind = "new" /\ Decl(t)[k].cls = c

\* this step called initEnum on an instance that was not frozen before the call
InitOnUnfrozen ==
  /\ last'.reached
  /\ last'.op = "initEnum" => ~enums[last'.enum].frozen

\* the Members that existed before the step are untouched by it
OldMembersUntouched == \A m \in 1 .. Len(members) : members'[m] = members[m]

\* the Members the step created are neither stamped nor frozen
NewMembersRaw ==
  \A m \in (Len(members) + 1) .. Len(members') :
    members'[m].propName = Unset /\ ~members'[m].frozen

(***************************************************************************)
(* C1. Once an Enumeration whose members are of concrete subtype c has     *)
(* completed closure, every later attempt to construct an instance of c    *)
(* (directly, or as a field initialiser of an Enumeration under            *)
(* construction) fails with the post-closure instantiation error and       *)
(* creates no instance of c, in both variants.                             *)
(***************************************************************************)
C1_PostClosureValueLock ==
  [][\A c \in MemberTypes :
       ClosedMemberType(c) =>
         /\ (last'.op = "newMember" /\ last'.cls = c) =>
              (last'.err = PostClosure /\ members' = members)
         /\ (last'.op = "construct" /\ DeclaresNew(last'.type, c)) =>
              last'.err = PostClosure
         /\ \A m \in (Len(members) + 1) .. Len(members') :
              members'[m].origin = 0 => members'[m].cls # c]_vars

C1_Witness ==
  /\ variant = "value"
  /\ last.op = "newMember"
  /\ last.err = PostClosure
  /\ ClosedMemberType(last.cls)

(***************************************************************************)
(* C2. Once an Enumeration subtype t has completed closure, every later    *)
(* construction of another instance of t fails and leaves the registry     *)
(* as it was.                                                              *)
(***************************************************************************)
C2_EnumSubtypeLock ==
  [][(/\ \E i \in 1 .. Len(enums) : enums[i].type = last'.type /\ Closed(enums[i])
      /\ last'.op = "construct")
       => (last'.err # NoError /\ enumValues' = enumValues)]_vars

(***************************************************************************)
(* C3. initEnum(name) fails with the duplicate-name error whenever name is *)
(* already a key of the registry, before any field is discovered, any      *)
(* Member stamped or frozen and any subtype closed.                        *)
(***************************************************************************)
C3_Original ==
  [][(last'.reached /\ Has(enumValues, last'.name)) =>
       /\ last'.err = DuplicateName
       /\ initialized' = initialized
       /\ enumValues' = enumValues
       /\ OldMembersUntouched /\ NewMembersRaw]_vars

(***************************************************************************)
(* C3 as amended. On an instance that is not yet frozen, initEnum(name)    *)
(* fails with the duplicate-name error whenever name is already a key of   *)
(* the registry, before any field is discovered, any Member stamped or     *)
(* frozen and any subtype closed; on a frozen instance the call fails      *)
(* earlier, at `this.name = name`, with a TypeError and changes nothing.   *)
(***************************************************************************)
C3_DuplicateNameFirst ==
  [][/\ (InitOnUnfrozen /\ Has(enumValues, last'.name)) =>
          /\ last'.err = DuplicateName
          /\ last'.errName = last'.name
          /\ initialized' = initialized
          /\ enumValues' = enumValues
          /\ arrays' = arrays
          /\ OldMembersUntouched /\ NewMembersRaw
          /\ ~enums'[last'.enum].frozen
     /\ (last'.op = "initEnum" /\ enums[last'.enum].frozen) =>
          /\ last'.err = TypeError
          /\ UNCHANGED <<sizes, size, initialized, members, enums, enumValues, arrays>>]_vars

C3_Witness ==
  /\ last.reached
  /\ last.err = DuplicateName
  /\ \E i \in 1 .. Len(enums) :
       i # last.enum /\ Closed(enums[i]) /\ enums[i].name = last.name
  /\ \E k \in 1 .. Len(enums[last.enum].fields) : enums[last.enum].fields[k].val > 0

(***************************************************************************)
(* C4. If two discovered Members of an Enumeration share a description,    *)
(* initEnum fails with the duplicate-description error, whose message      *)
(* names the Enumeration; the Enumeration is neither frozen nor            *)
(* registered, and an initEnum with the same name that follows is not      *)
(* rejected as a duplicate name.                                           *)
(***************************************************************************)
SharesDescription(ms, e) ==
  \E j, k \in 1 .. Len(e.fields) :
    /\ j # k
    /\ e.fields[j].val > 0 /\ e.fields[k].val > 0
    /\ ms[e.fields[j].val].description = ms[e.fields[k].val].description

C4_DuplicateDescription ==
  [][/\ (/\ InitOnUnfrozen
         /\ ~Has(enumValues, last'.name)
         /\ SharesDescription(members', enums'[last'.enum])) =>
          /\ last'.err = DuplicateDescription
          /\ last'.errName = last'.name
          /\ enumValues' = enumValues
          /\ arrays' = arrays
          /\ ~enums'[last'.enum].frozen
     /\ (last.err = DuplicateDescription /\ last'.reached /\ last'.name = last.name) =>
          last'.err # DuplicateName]_vars

C4_Witness ==
  /\ last.reached
  /\ last.err = DuplicateDescription
  /\ last.errName = enums[last.enum].name
  /\ ~Has(enumValues, last.name)
  /\ SharesDescription(members, enums[last.enum])

(***************************************************************************)
(* C5. For every closed Enumeration the member at position i of its value  *)
(* list has ordinal i (0-based), so the ordinals are exactly 0..N-1,       *)
(* whatever Members and Enumerations were constructed before.              *)
(***************************************************************************)
C5_OrdinalDensity ==
  \A i \in 1 .. Len(enums) :
    Closed(enums[i]) =>
      \A k \in 1 .. Len(Registered(enums[i])) :
        members[Registered(enums[i])[k]].ordinal = k - 1

(***************************************************************************)
(* C6. Within one concrete Member subtype the k-th successful construction *)
(* receives ordinal k-1; constructions of another concrete subtype never   *)
(* advance it, in both variants.                                           *)
(***************************************************************************)
ConstructedBefore(m) ==
  {n \in 1 .. (m - 1) : members[n].origin = 0 /\ members[n].cls = members[m].cls}

C6_OrdinalPerSubtype ==
  \A m \in 1 .. Len(members) :
    members[m].origin = 0 => members[m].ordinal = Cardinality(ConstructedBefore(m))

(***************************************************************************)
(* C7. For every closed Enumeration e and every property name p:           *)
(* byPropName(p) is the very value held by field p of e when that field    *)
(* holds a Member (in the value variant the re-bound, merged value), and   *)
(* absent otherwise.                                                       *)
(***************************************************************************)
MemberFieldValue(e, p) ==
  IF \E k \in 1 .. Len(e.fields) : e.fields[k].prop = p /\ e.fields[k].val > 0
  THEN e.fields[CHOOSE k \in 1 .. Len(e.fields) : e.fields[k].prop = p].val
  ELSE 0

C7_ByPropNameIdentity ==
  /\ \A i \in 1 .. Len(enums), p \in PropNames :
       Closed(enums[i]) => ByPropNameOf(World, enums[i], p) = MemberFieldValue(enums[i], p)
  /\ (last.op = "byPropName" /\ Closed(enums[last.enum])) =>
       last.res = MemberFieldValue(enums[last.enum], last.arg)

C7_Witness ==
  /\ variant = "value"
  /\ last.op = "byPropName"
  /\ Closed(enums[last.enum])
  /\ last.res > 0
  /\ members[last.res].origin > 0
  /\ last.res = MemberFieldValue(enums[last.enum], last.arg)

(***************************************************************************)
(* C8. For every closed Enumeration e and every description d:             *)
(* byDescription(d) is the one member of e.values whose description is d   *)
(* when there is one, and absent otherwise; a returned member is always    *)
(* bound to a field of e itself.                                           *)
(***************************************************************************)
WithDescription(e, d) ==
  {k \in 1 .. Len(Registered(e)) : members[Registered(e)[k]].description = d}

BoundTo(e, v) == \E k \in 1 .. Len(e.fields) : e.fields[k].val = v

ByDescriptionCorrect(e, d, res) ==
  IF WithDescription(e, d) = {}
  THEN res = 0
  ELSE /\ Cardinality(WithDescription(e, d)) = 1
       /\ \E k \in WithDescription(e, d) : Registered(e)[k] = res
       /\ BoundTo(e, res)

C8_ByDescriptionUnique ==
  /\ \A i \in 1 .. Len(enums), d \in Descriptions :
       Closed(enums[i]) =>
         ByDescriptionCorrect(enums[i], d, ByDescriptionOf(World, enums[i], d))
  /\ (last.op = "byDescription" /\ Closed(enums[last.enum])) =>
       ByDescriptionCorrect(enums[last.enum], last.arg, last.res)

C8_Witness ==
  /\ last.op = "byDescription"
  /\ Closed(enums[last.enum])
  /\ last.res > 0
  /\ members[last.res].description = last.arg
  /\ \E j \in 1 .. Len(enums) :
       j # last.enum /\ Closed(enums[j]) /\ Len(Registered(enums[j])) > 0

(***************************************************************************)
(* C9. After closure, `values` is exactly the sequence of the values held  *)
(* by the candidate fields (those holding a Member), in declaration        *)
(* order; the other fields are not in it and still hold what they were     *)
(* assigned.                                                               *)
(***************************************************************************)
RECURSIVE CandidateValuesFrom(_, _)
CandidateValuesFrom(fields, k) ==
  IF k > Len(fields) THEN << >>
  ELSE IF fields[k].val > 0
  THEN << fields[k].val >> \o CandidateValuesFrom(fields, k + 1)
  ELSE CandidateValuesFrom(fields, k + 1)

FieldsAsDeclared(e) ==
  /\ Len(e.fields) = Len(Decl(e.type))
  /\ \A k \in 1 .. Len(e.fields) :
       /\ e.fields[k].prop = Decl(e.type)[k].prop
       /\ Decl(e.type)[k].kind = "other" => e.fields[k].val = OtherVal
       /\ Decl(e.type)[k].kind = "null" => e.fields[k].val = NullVal
       /\ Decl(e.type)[k].kind \in {"new", "borrow", "same"} => e.fields[k].val > 0

C9_ValuesAreCandidates ==
  \A i \in 1 .. Len(enums) :
    Closed(enums[i]) =>
      /\ ValuesOf(World, enums[i]) = CandidateValuesFrom(enums[i].fields, 1)
      /\ FieldsAsDeclared(enums[i])

C9_Witness ==
  \E i \in 1 .. Len(enums) :
    /\ Closed(enums[i])
    /\ Len(ValuesOf(World, enums[i])) = 2
    /\ \E k \in 1 .. Len(enums[i].fields) : enums[i].fields[k].val = OtherVal
    /\ variant = "value"

(***************************************************************************)
(* C10. `values` hands out a copy: a mutation of the array returned by     *)
(* `values` leaves the registry and every registered array as they were,   *)
(* so values, byPropName and byDescription answer as before.               *)
(***************************************************************************)
C10_DefensiveCopy ==
  [][last'.op = "mutate" =>
       /\ enumValues' = enumValues
       /\ \A n \in Names : Has(enumValues, n) => arrays'[enumValues[n]] = arrays[enumValues[n]]
       /\ \A i \in 1 .. Len(enums) :
            /\ ValuesOf(World, enums[i])' = ValuesOf(World, enums[i])
            /\ \A p \in PropNames :
                 ByPropNameOf(World, enums[i], p)' = ByPropNameOf(World, enums[i], p)
            /\ \A d \in Descriptions :
                 ByDescriptionOf(World, enums[i], d)' = ByDescriptionOf(World, enums[i], d)]_vars

C10_Witness ==
  /\ last.op = "mutate"
  /\ held.mutated
  /\ \E i \in 1 .. Len(enums) :
       /\ Closed(enums[i])
       /\ Len(Registered(enums[i])) = 2
       /\ arrays[held.id] # Registered(enums[i])
       /\ Len(arrays[held.id]) = 2

(***************************************************************************)
(* C11. After closure the Enumeration instance is immutable: every attempt *)
(* to reassign one of its fields or to add a new field is rejected with a  *)
(* TypeError and leaves the instance, its values, the Members and the      *)
(* registry unchanged.  An instance has completed closure when the         *)
(* registry holds, under its name, exactly the Members its fields hold.    *)
(***************************************************************************)
CompletedClosure(e) ==
  /\ Has(enumValues, e.name)
  /\ Len(Registered(e)) > 0
  /\ Registered(e) = CandidateValuesFrom(e.fields, 1)

C11_EnumFrozen ==
  [][\A i \in 1 .. Len(enums) :
       (/\ last'.op = "writeEnum"
        /\ last'.enum = i
        /\ (Closed(enums[i]) \/ CompletedClosure(enums[i])))
       => /\ last'.err = TypeError
          /\ enums' = enums
          /\ members' = members
          /\ enumValues' = enumValues
          /\ arrays' = arrays]_vars

C11_Witness ==
  /\ last.op = "writeEnum"
  /\ last.arg = "extra"
  /\ last.err = TypeError
  /\ CompletedClosure(enums[last.enum])
  /\ \E j \in 1 .. Len(enums) : WrittenEnum(enums[j])

(***************************************************************************)
(* C12. After closure every Member in `values` is immutable: every attempt *)
(* to write its description, ordinal or propName is rejected and the       *)
(* Member is unchanged.                                                    *)
(***************************************************************************)
InValues(m) ==
  \E n \in Names :
    Has(enumValues, n) /\ \E k \in 1 .. Len(arrays[enumValues[n]]) : arrays[enumValues[n]][k] = m

C12_MemberFrozen ==
  [][(last'.op = "writeMember" /\ InValues(last'.res))
       => /\ last'.err \in {TypeError, CannotSet}
          /\ members' = members
          /\ enums' = enums
          /\ enumValues' = enumValues
          /\ arrays' = arrays]_vars

C12_Witness ==
  /\ variant = "identity"
  /\ last.op = "writeMember"
  /\ last.arg = "propName"
  /\ last.err = TypeError
  /\ InValues(last.res)
  /\ \E m \in 1 .. Len(members) : WrittenMember(members[m])

(***************************************************************************)
(* C13. propName is unset from construction until closure; it is assigned  *)
(* only while initialize runs, to the name of the field of the closing     *)
(* Enumeration that holds the Member; once assigned it never changes; and  *)
(* after closure every Member field f of the Enumeration holds a value     *)
(* whose propName is f.                                                    *)
(***************************************************************************)
PropNameAssigned(m) ==
  /\ members'[m].propName # Unset
  /\ m > Len(members) \/ members[m].propName = Unset

C13_PropNameOnce ==
  [][/\ \A m \in 1 .. Len(members) :
          members[m].propName # Unset =>
            m <= Len(members') /\ members'[m].propName = members[m].propName
     /\ \A m \in 1 .. Len(members') :
          PropNameAssigned(m) =>
            /\ last'.reached
            /\ \E k \in 1 .. Len(enums'[last'.enum].fields) :
                 enums'[last'.enum].fields[k] = [prop |-> members'[m].propName, val |-> m]
     /\ \A i \in 1 .. Len(enums') :
          Closed(enums'[i]) =>
            \A k \in 1 .. Len(enums'[i].fields) :
              enums'[i].fields[k].val > 0 =>
                members'[enums'[i].fields[k].val].propName = enums'[i].fields[k].prop]_vars

C13_Witness ==
  /\ last.op = "construct"
  /\ last.type = "AliasEnumType"
  /\ last.reached
  /\ \E i \in 1 .. Len(enums) :
       /\ enums[i].type = "ColorEnumType"
       /\ Closed(enums[i])
       /\ members[MemberFieldValue(enums[i], "RED")].propName = "RED"

(***************************************************************************)
(* C14. Whenever initialize fails, at whatever step (duplicate name, an    *)
(* error during discovery or extraction, duplicate description), the       *)
(* registry is the same as before the call; the registry is written only   *)
(* by a successful initialize, which adds exactly the entry for its name.  *)
(***************************************************************************)
RegistryUnchanged == enumValues' = enumValues /\ arrays' = arrays

C14_FailureKeepsRegistry ==
  [][/\ (last'.reached /\ last'.err # NoError) => RegistryUnchanged
     /\ ~last'.reached => RegistryUnchanged
     /\ (last'.reached /\ last'.err = NoError) =>
          /\ ~Has(enumValues, last'.name)
          /\ Has(enumValues', last'.name)
          /\ \A n \in Names \ {last'.name} : enumValues'[n] = enumValues[n]
          /\ \A a \in DOMAIN arrays : a \in DOMAIN arrays' /\ arrays'[a] = arrays[a]]_vars

C14_Witness ==
  /\ last.reached
  /\ last.err = TypeError
  /\ ~enums[last.enum].frozen
  /\ \E n \in Names : Has(enumValues, n) /\ Len(arrays[enumValues[n]]) > 0

(***************************************************************************)
(* C15. The closed state is terminal: a closed Member subtype stays        *)
(* closed and a closed Enumeration instance stays closed (frozen, with its *)
(* name registered) in every later state, whatever constructions,          *)
(* initialize calls and queries follow.                                    *)
(***************************************************************************)
C15_ClosedIsTerminal ==
  [][/\ \A c \in initialized : c \in initialized'
     /\ \A i \in 1 .. Len(enums) :
          (Closed(enums[i]) /\ Has(enumValues, enums[i].name)) =>
            /\ i <= Len(enums')
            /\ Closed(enums'[i])
            /\ enums'[i].name = enums[i].name
            /\ Has(enumValues', enums'[i].name)]_vars

C15_Witness ==
  /\ last.op = "byDescription"
  /\ Cardinality(initialized) > 1
  /\ \A i \in 1 .. Len(enums) : Closed(enums[i])
  /\ Len(enums) > 1

(***************************************************************************)
(* C16. The registry is write-once per name: once a name maps to a value   *)
(* list it maps to a list in every later state, and that list has the same *)
(* elements in the same order; a later construction or initialize under    *)
(* the same name, and a mutation of an array obtained from `values`, do    *)
(* not change it.                                                          *)
(***************************************************************************)
C16_RegistryWriteOnce ==
  [][\A n \in Names :
       Has(enumValues, n) =>
         /\ Has(enumValues', n)
         /\ arrays'[enumValues'[n]] = arrays[enumValues[n]]]_vars

C16_Witness ==
  /\ last.op = "mutate"
  /\ \E i \in 1 .. Len(enums) :
       /\ ~Closed(enums[i])
       /\ Has(enumValues, enums[i].name)
       /\ Len(Registered(enums[i])) > 1
       /\ arrays[held.id] # Registered(enums[i])

(***************************************************************************)
(* C17. A Member belongs to exactly one Enumeration: no Member value is in *)
(* the registered value lists of two different names (the same object in   *)
(* the identity variant, an equal record in the value variant), also when  *)
(* a second Enumeration type binds a finalized Member of a closed          *)
(* Enumeration to one of its own fields.                                   *)
(***************************************************************************)
SameMember(a, b) ==
  IF variant = "identity"
  THEN a = b
  ELSE /\ members[a].cls = members[b].cls
       /\ members[a].description = members[b].description
       /\ members[a].ordinal = members[b].ordinal
       /\ members[a].propName = members[b].propName

C17_OneEnumeration ==
  \A n1 \in Names, n2 \in Names :
    (n1 # n2 /\ Has(enumValues, n1) /\ Has(enumValues, n2)) =>
      \A k1 \in 1 .. Len(arrays[enumValues[n1]]), k2 \in 1 .. Len(arrays[enumValues[n2]]) :
        ~SameMember(arrays[enumValues[n1]][k1], arrays[enumValues[n2]][k2])

(***************************************************************************)
(* C18. Constructing a second instance of an Enumeration subtype that has  *)
(* a closed instance fails with the post-closure instantiation error,      *)
(* raised before initialize is reached.                                    *)
(***************************************************************************)
C18_SecondInstanceRejected ==
  [][(/\ last'.op = "construct"
      /\ \E i \in 1 .. Len(enums) : enums[i].type = last'.type /\ Closed(enums[i]))
       => (last'.err = PostClosure /\ ~last'.reached)]_vars

(***************************************************************************)
(* C19. After a successful closure with at least one candidate, the        *)
(* concrete subtype of every Member in `values` is closed, also when the   *)
(* Members are of different concrete subtypes.                             *)
(***************************************************************************)
C19_AllSubtypesClosed ==
  \A i \in 1 .. Len(enums) :
    (Closed(enums[i]) /\ Has(enumValues, enums[i].name)) =>
      \A k \in 1 .. Len(Registered(enums[i])) :
        IsInitialized(initialized, members[Registered(enums[i])[k]].cls)

(***************************************************************************)
(* C20. Every value list in the registry has pairwise distinct             *)
(* descriptions, and every Member in it has its propName set.              *)
(***************************************************************************)
C20_RegisteredListsDistinct ==
  \A n \in Names :
    Has(enumValues, n) =>
      LET v == arrays[enumValues[n]] IN
      /\ \A j \in 1 .. Len(v), k \in 1 .. Len(v) :
           j # k => members[v[j]].description # members[v[k]].description
      /\ \A k \in 1 .. Len(v) : members[v[k]].propName # Unset

C20_Witness ==
  /\ last.reached
  /\ last.err = DuplicateDescription
  /\ \E n \in Names : Has(enumValues, n) /\ Len(arrays[enumValues[n]]) > 1

(***************************************************************************)
(* C21. Closure never changes a Member's description, ordinal or extra     *)
(* field: no step changes them on an existing Member; in the value variant *)
(* the re-bound value differs from the value it was merged from only in    *)
(* propName; and the value in a field of a closed Enumeration has the      *)
(* description and the extra field its field initialiser passed to the     *)
(* constructor.                                                            *)
(***************************************************************************)
SameData(a, b) ==
  /\ a.cls = b.cls
  /\ a.description = b.description
  /\ a.ordinal = b.ordinal
  /\ a.extra = b.extra

DeclaredErrors == {PostClosure, DuplicateName, DuplicateDescription, TypeError}

C22_DeclaredErrorsOnly ==
  [][last'.reached => last'.err \in DeclaredErrors \cup {NoError}]_vars

(***************************************************************************)
(* C23. For every Member bound to field X of a closed Enumeration, the     *)
(* Member's toString() is its concrete type name, a dot and X, which is    *)
(* the type name, a dot and the Member's propName.                         *)
(***************************************************************************)
BoundMembers(e) == {k \in 1 .. Len(e.fields) : e.fields[k].val > 0}

C23_MemberToString ==
  /\ \A i \in 1 .. Len(enums) :
       Closed(enums[i]) =>
         \A k \in BoundMembers(enums[i]) :
           LET m == members[enums[i].fields[k].val] IN
           /\ EnumValueToString(m) = m.cls \o "." \o enums[i].fields[k].prop
           /\ EnumValueToString(m) = m.cls \o "." \o m.propName
  /\ \A i \in 1 .. Len(enums) :
       (/\ Closed(enums[i])
        /\ enums[i].type = "ColorEnumType"
        /\ last.op = "memberToString"
        /\ last.res = MemberFieldValue(enums[i], "GREEN"))
       => last.arg = "Color.GREEN"

C23_Witness ==
  /\ last.op = "memberToString"
  /\ last.arg = "Color.GREEN"
  /\ variant = "value"
  /\ \E i \in 1 .. Len(enums) :
       Closed(enums[i]) /\ last.res = MemberFieldValue(enums[i], "GREEN")

(***************************************************************************)
(* C24. For every closed Enumeration, toString() returns exactly the name  *)
(* that was passed to the initialize call that closed it, which is the     *)
(* name its value list is registered under.                                *)
(***************************************************************************)
C24_EnumToString ==
  [][/\ (last'.reached /\ last'.err = NoError) =>
          EnumToString(enums'[last'.enum]) = last'.name
     /\ \A i \in 1 .. Len(enums) :
          Closed(enums[i]) =>
            /\ EnumToString(enums'[i]) = EnumToString(enums[i])
            /\ Has(enumValues, EnumToString(enums[i]))
            /\ Registered(enums[i]) = CandidateValuesFrom(enums[i].fields, 1)
     /\ (last'.op = "toString" /\ Closed(enums[last'.enum])) =>
          last'.arg = enums[last'.enum].name]_vars

C24_Witness ==
  /\ last.op = "toString"
  /\ last.arg = "Other"
  /\ Closed(enums[last.enum])
  /\ Len(Registered(enums[last.enum])) > 1

(***************************************************************************)
(* C25. When closure fails with the duplicate-description error on an      *)
(* Enumeration whose Members are of one concrete subtype, that subtype is  *)
(* closed all the same: every discovered Member has its propName stamped   *)
(* (and is frozen, in the identity variant), the subtype's closed flag is  *)
(* set, a later construction of the subtype fails with the post-closure    *)
(* error, and the Enumeration instance is neither frozen nor registered.   *)
(***************************************************************************)
OneSubtype(e) ==
  \A j \in BoundMembers(e), k \in BoundMembers(e) :
    members[e.fields[j].val].cls = members[e.fields[k].val].cls

\* the subtype of the Members of e is closed, e itself is not
SubtypeClosedOnly(e) ==
  /\ BoundMembers(e) # {}
  /\ \A k \in BoundMembers(e) :
       LET m == members[e.fields[k].val] IN
       /\ m.propName = e.fields[k].prop
       /\ variant = "identity" => m.frozen
       /\ IsInitialized(initialized, m.cls)
       /\ NewEnumValue(World, m.cls, "foo").err = PostClosure
  /\ ~e.frozen
  /\ ~Has(enumValues, e.name)

C25_DuplicateDescriptionCloses ==
  [][(last'.reached /\ last'.err = DuplicateDescription /\ OneSubtype(enums[last.enum])') =>
       (SubtypeClosedOnly(enums[last.enum])' /\ RegistryUnchanged)]_vars

C25_Witness ==
  /\ last.op = "newMember"
  /\ last.cls = "Tint"
  /\ last.err = PostClosure
  /\ \A i \in 1 .. Len(enums) : ~Closed(enums[i])
  /\ \A n \in Names : ~Has(enumValues, n)

(***************************************************************************)
(* C26. A Member construction that fails because the subtype is closed has *)
(* no effect on shared state, in both variants: a failed `new Cls(...)`    *)
(* leaves every counter, the closed flags, every Member and the registry   *)
(* as they were; when it fails as a field initialiser, the counters have   *)
(* advanced only by the Members the earlier initialisers constructed.      *)
(***************************************************************************)
Built(c) == {m \in (Len(members) + 1) .. Len(members') : members'[m].cls = c}

BuiltBy(f) == {m \in (Len(members) + 1) .. Len(members') : FactoryOf(members'[m].cls) = f}

CountersMatchBuilt ==
  /\ variant = "identity" =>
       /\ size' = size
       /\ \A c \in MemberTypes : sizes'[c] = sizes[c] + Cardinality(Built(c))
  /\ variant = "value" =>
       /\ sizes' = sizes
       /\ \A f \in Factories : size'[f] = size[f] + Cardinality(BuiltBy(f))

C26_FailedConstructionNoEffect ==
  [][last'.err = PostClosure =>
       /\ initialized' = initialized
       /\ RegistryUnchanged
       /\ enums' = enums
       /\ OldMembersUntouched
       /\ NewMembersRaw
       /\ CountersMatchBuilt
       /\ last'.op = "newMember" =>
            (members' = members /\ sizes' = sizes /\ size' = size)]_vars

C26_Witness ==
  /\ last.op = "construct"
  /\ last.type = "MixedEnumType"
  /\ last.err = PostClosure
  /\ Len(members) > 0
  /\ members[Len(members)].cls = "Mode"
  /\ members[Len(members)].propName = Unset

(***************************************************************************)
(* C27. When initialize fails with the duplicate-name error, the closed    *)
(* flags, every Member (those built for the failing instance are still     *)
(* unstamped and unfrozen), the registry and the other Enumerations are    *)
(* unchanged and the failing instance is still unfrozen, with its fields   *)
(* as they were; the only lasting effects are the counters advanced by the *)
(* Members built for the instance and the name stored on the instance.     *)
(***************************************************************************)
OnlyNameStored ==
  LET i == last'.enum IN
  /\ \A j \in 1 .. Len(enums) : j # i => enums'[j] = enums[j]
  /\ enums'[i].name = last'.name
  /\ ~enums'[i].frozen
  /\ last'.op = "initEnum" =>
       (enums' = [enums EXCEPT ![i].name = last'.name] /\ members' = members)
  /\ last'.op = "construct" =>
       (Len(enums') = Len(enums) + 1 /\ FieldsAsDeclared(enums'[i]))

C27_DuplicateNameFrame ==
  [][last'.err = DuplicateName =>
       /\ last'.reached
       /\ initialized' = initialized
       /\ RegistryUnchanged
       /\ OldMembersUntouched
       /\ NewMembersRaw
       /\ CountersMatchBuilt
       /\ OnlyNameStored]_vars

C27_Witness ==
  /\ last.op = "initEnum"
  /\ last.err = DuplicateName
  /\ enums[last.enum].name = last.name
  /\ BoundMembers(enums[last.enum]) # {}
  /\ ~Closed(enums[last.enum])
  /\ CandidateValuesFrom(enums[last.enum].fields, 1) # Registered(enums[last.enum])

(***************************************************************************)
(* C28. `values` of an Enumeration instance only ever holds Members bound  *)
(* to that instance's own fields: for an instance whose closure has not    *)
(* completed, `values` is empty and byPropName and byDescription return    *)
(* nothing, never the Members another Enumeration registered under the     *)
(* same name.                                                              *)
(***************************************************************************)
C28_ValuesOwnMembersOnly ==
  \A i \in 1 .. Len(enums) :
    /\ \A k \in 1 .. Len(ValuesOf(World, enums[i])) :
         BoundTo(enums[i], ValuesOf(World, enums[i])[k])
    /\ ~Closed(enums[i]) =>
         /\ ValuesOf(World, enums[i]) = << >>
         /\ \A p \in PropNames : ByPropNameOf(World, enums[i], p) = 0
         /\ \A d \in Descriptions : ByDescriptionOf(World, enums[i], d) = 0

(***************************************************************************)
(* C29. Closure happens at most once per Enumeration instance: after       *)
(* initialize has succeeded on an instance, every further initialize on    *)
(* that instance, with the same or another name, fails, and the registry,  *)
(* the instance (its name included), its values and the Members are        *)
(* unchanged.                                                              *)
(***************************************************************************)
C29_ClosureOnce ==
  [][/\ (last'.reached /\ last'.err = NoError) => Closed(enums'[last'.enum])
     /\ \A i \in 1 .. Len(enums) :
          (last'.op = "initEnum" /\ last'.enum = i /\ Closed(enums[i]))
          => /\ last'.err # NoError
             /\ RegistryUnchanged
             /\ enums' = enums
             /\ members' = members
             /\ initialized' = initialized
             /\ ValuesOf(World, enums[i])' = ValuesOf(World, enums[i])]_vars

C29_Witness ==
  /\ last.op = "initEnum"
  /\ last.err # NoError
  /\ Closed(enums[last.enum])
  /\ last.name # enums[last.enum].name
  /\ ~Has(enumValues, last.name)
  /\ Len(ValuesOf(World, enums[last.enum])) > 1

(***************************************************************************)
(* C30 as claimed. An Enumeration with no candidate Member field closes:   *)
(* it is frozen and registered under its name with an empty value list, no *)
(* Member subtype is closed, and every later initialize with the same name *)
(* fails with the duplicate-name error.                                    *)
(***************************************************************************)
NoCandidates(e) == CandidateFields(e.fields) = << >>

ClosesEmpty ==
  (/\ last'.reached
   /\ NoCandidates(enums'[last'.enum])
   /\ ~Has(enumValues, last'.name)
   /\ last'.op = "initEnum" => ~enums[last'.enum].frozen)
  => /\ last'.err = NoError
     /\ enums'[last'.enum].frozen
     /\ enums'[last'.enum].name = last'.name
     /\ Has(enumValues', last'.name)
     /\ arrays'[enumValues'[last'.name]] = << >>
     /\ initialized' = initialized
     /\ members' = members

RegisteredEmpty(name) == Has(enumValues, name) /\ arrays[enumValues[name]] = << >>

C30_Original ==
  [][/\ ClosesEmpty
     /\ (last'.reached /\ RegisteredEmpty(last'.name)) => last'.err = DuplicateName]_vars

(***************************************************************************)
(* C30 as amended. As above, except that the later initialize with the     *)
(* same name fails with the duplicate-name error on an instance that is    *)
(* not frozen, and with a TypeError on a frozen instance (the closed       *)
(* Enumeration itself included); either way the registry is unchanged.     *)
(***************************************************************************)
C30_EmptyCloses ==
  [][/\ ClosesEmpty
     /\ (last'.reached /\ RegisteredEmpty(last'.name)) =>
          /\ RegistryUnchanged
          /\ last'.err = IF last'.op = "initEnum" /\ enums[last'.enum].frozen
                         THEN TypeError ELSE DuplicateName]_vars

C30_Witness ==
  /\ last.reached
  /\ last.err = DuplicateName
  /\ RegisteredEmpty(last.name)
  /\ initialized = {}
  /\ \E i \in 1 .. Len(enums) :
       Closed(enums[i]) /\ enums[i].name = last.name /\ NoCandidates(enums[i])

(***************************************************************************)
(* C31. The query operations are read-only and never fail on a closed      *)
(* Enumeration: values, byPropName, byDescription and toString (of the     *)
(* Enumeration and of its Members), for any argument including unknown     *)
(* keys, raise no error and leave the registry, the closed flags, the      *)
(* construction counters and every Member unchanged.                       *)
(***************************************************************************)
EnumQueries == {"values", "byPropName", "byDescription", "toString"}

\* the step to the next state is a query of a closed Enumeration or of one
\* of its Members
QueryOfClosed ==
  \/ /\ last'.op \in EnumQueries
     /\ last'.enum \in 1 .. Len(enums)
     /\ Closed(enums[last'.enum])
  \/ /\ last'.op = "memberToString"
     /\ \E i \in 1 .. Len(enums) : Closed(enums[i]) /\ BoundTo(enums[i], last'.res)

RegistryKept ==
  /\ enumValues' = enumValues
  /\ \A n \in Names :
       Has(enumValues, n) => arrays'[enumValues[n]] = arrays[enumValues[n]]

C31_QueriesReadOnly ==
  [][QueryOfClosed =>
       /\ last'.err = NoError
       /\ RegistryKept
       /\ enums' = enums
       /\ initialized' = initialized
       /\ sizes' = sizes
       /\ size' = size
       /\ members' = members]_vars

\* an unknown key looked up in a closed Enumeration of two Members, after
\* its values were read
C31_Witness ==
  /\ last.op = "byPropName"
  /\ last.arg = "label"
  /\ last.res = 0
  /\ held.id # 0
  /\ Closed(enums[last.enum])
  /\ Len(Registered(enums[last.enum])) = 2

(***************************************************************************)
(* C32. The state machine built from the Enumerations Result {ACCEPTED,    *)
(* REJECTED} and State {START, A_SEQUENCE, B_SEQUENCE, ACCEPT}, started in *)
(* START and stepped by each state's transition closure over the input     *)
(* characters, terminates for every finite input and yields ACCEPTED       *)
(* exactly for the inputs made of one or more "A" followed by one or more  *)
(* "B", and REJECTED for every other input; the states are compared by     *)
(* identity against the Enumeration fields.                                *)
(***************************************************************************)
\* one or more "A" followed by one or more "B"
APlusBPlus(str) ==
  \E k \in 1 .. (Len(str) - 1) :
    /\ \A i \in 1 .. k : str[i] = "A"
    /\ \A i \in (k + 1) .. Len(str) : str[i] = "B"

\* the Member the field `prop` of the closed Enumeration `name` was given
MemberNamed(m, cls, prop) ==
  /\ m \in 1 .. Len(members)
  /\ members[m].cls = cls
  /\ members[m].propName = prop

RunReturned ==
  run.status = "returned" =>
    /\ run.result <=> APlusBPlus(run.str)
    /\ run.result => MemberNamed(run.state, "Result", "ACCEPTED")
    /\ ~run.result => MemberNamed(run.state, "Result", "REJECTED")

RunStarted ==
  (run.status = "running" /\ run.pos = 0 /\ run.state # FieldOf(ResultEnum, "REJECTED"))
    => MemberNamed(run.state, "State", "START")

C32_StateMachine ==
  /\ [](RunReturned /\ RunStarted)
  /\ (run.status = "running") ~> (run.status = "returned")

\* "AABBB" was accepted
C32_Witness ==
  /\ run.status = "returned"
  /\ run.str = << "A", "A", "B", "B", "B" >>
  /\ run.result
  /\ run.state = FieldOf(ResultEnum, "ACCEPTED")

====
